---- MODULE Spec2Model ----
(***************************************************************************)
(* PyMusicLooper, rust_analysis::detect_loop_pairs (src/src/lib.rs).       *)
(*                                                                         *)
(* The pairwise beat-matching search: for every candidate loop end (outer  *)
(* loop over beats, with its index idx) and every candidate loop start     *)
(* (inner loop over beats), the duration window is applied first (break on *)
(* too short, continue on too long), then the chroma distance against the  *)
(* tolerance at idx, then the loudness difference.  One action of the      *)
(* model is one execution of the inner loop body.                          *)
(*                                                                         *)
(* Conventions.  TLA+ sequences are 1-based: beats[idx] of the model is    *)
(* beats[idx-1] of the code, and column c of a matrix is m[c+1].  usize is *)
(* modelled WordBits wide.  f32 values are modelled by integers; the       *)
(* feature values used make every norm an exact integer.  A Rust panic     *)
(* (index out of range, unwrap of None, arithmetic overflow in a build     *)
(* with overflow checks) ends the call with nothing returned.              *)
(* Frame indices stay below 2^(WordBits-1), where s![.., c] (which takes   *)
(* its index as isize) and the usize value agree.  beats is taken          *)
(* contiguous (as_slice is Some).                                          *)
(***************************************************************************)
EXTENDS Integers, Sequences, FiniteSets, TLC

\* ------------------------------------------------------------- bounds
WordBits == 3
MaxBeats == 2
MaxFrame == 2

NEG_INFINITY == -1000

Pow2(n) == 2 ^ n
MaxWord == Pow2(WordBits) - 1
Word == 0 .. MaxWord

VARIABLES
    chroma,                         \* sequence of columns, each a sequence of values
    power_db,                       \* sequence of columns, each a sequence of values
    beats,                          \* sequence of frame indices
    acceptable_chroma_deviation,    \* sequence of tolerances
    min_loop_duration,
    max_loop_duration,
    acceptable_loudness_difference,
    overflow_checks,                \* build: TRUE panics on overflow, FALSE wraps
    idx,                            \* outer loop position (1-based)
    j,                              \* inner loop position (1-based)
    candidate_pairs,                \* the accumulator
    pc,                             \* "loop" | "done" | "panicked"
    ret,                            \* the returned vector (set at "done")
    emittedPos,                     \* history: <<idx, j>> of each pushed tuple
    evaluated,                      \* history: the <<idx, j>> whose body was entered
    lastEvent,                      \* history: outcome of the last inner loop body
    wj,                             \* per-end worker: inner position
    wlist,                          \* per-end worker: local list
    wstate,                         \* per-end worker: "scan" | "finished" | "panicked"
    merged,                         \* concatenation of the local lists
    mstatus                         \* "pending" | "done" | "panicked"

inputs == <<chroma, power_db, beats, acceptable_chroma_deviation, min_loop_duration,
            max_loop_duration, acceptable_loudness_difference, overflow_checks>>
seqvars == <<idx, j, candidate_pairs, pc, ret, emittedPos, evaluated, lastEvent>>
parvars == <<wj, wlist, wstate, merged, mstatus>>
vars == <<inputs, seqvars, parvars>>

\* ------------------------------------------------------------ helpers
Abs(x) == IF x < 0 THEN -x ELSE x

RECURSIVE SumSquares(_)
SumSquares(a) == IF a = <<>> THEN 0 ELSE Head(a) * Head(a) + SumSquares(Tail(a))

\* f32::sqrt on the values that occur (perfect squares): the integer root.
Sqrt(n) == CHOOSE r \in 0 .. n : r * r <= n /\ (r + 1) * (r + 1) > n

l2_norm(a) == Sqrt(SumSquares(a))

f32max(a, b) == IF a >= b THEN a ELSE b

RECURSIVE FoldMax(_, _)
FoldMax(acc, a) == IF a = <<>> THEN acc ELSE FoldMax(f32max(acc, Head(a)), Tail(a))

db_diff(power_db_f1, power_db_f2) ==
    LET max_f1 == FoldMax(NEG_INFINITY, power_db_f1)
        max_f2 == FoldMax(NEG_INFINITY, power_db_f2)
    IN  Abs(max_f1 - max_f2)

\* matrix.slice(s![.., c]): defined only for c < ncols, panics otherwise.
ValidColumn(m, c) == c < Len(m)
Column(m, c) == m[c + 1]

VecSub(a, b) == [i \in 1 .. Len(a) |-> a[i] - b[i]]

\* ------------------------------------------------------- loop body
\* loop_end - loop_start on usize: wraps (release) or panics (overflow checks).
SubOverflows(loop_end, loop_start) == loop_start > loop_end
WrappingSub(loop_end, loop_start) == (loop_end - loop_start) % Pow2(WordBits)

\* Mutant: the too-short test is off by one.
TooShort_OffByOne(loop_length) == loop_length + 1 < min_loop_duration
TooShort(loop_length) == loop_length < min_loop_duration
\* Mutant: the upper bound of the window is exclusive.
TooLong_Inclusive(loop_length) == loop_length >= max_loop_duration
TooLong(loop_length) == loop_length > max_loop_duration

ChromaOk(note_distance, i) == note_distance <= acceptable_chroma_deviation[i]
LoudnessOk(loudness_difference) == loudness_difference <= acceptable_loudness_difference

\* acceptable_chroma_deviation.get(idx) is Some
HasTolerance(i) == i <= Len(acceptable_chroma_deviation)

NoteDistance(loop_end, loop_start) ==
    l2_norm(VecSub(Column(chroma, loop_end), Column(chroma, loop_start)))

LoudnessDifference(loop_end, loop_start) ==
    db_diff(Column(power_db, loop_end), Column(power_db, loop_start))

\* The outcome of one execution of the inner loop body for positions (i, s).
Classify(i, s) ==
    LET loop_end == beats[i]
        loop_start == beats[s]
        loop_length == WrappingSub(loop_end, loop_start)
    IN  IF overflow_checks /\ SubOverflows(loop_end, loop_start) THEN "overflow_panic"
        ELSE IF TooShort(loop_length) THEN "too_short"
        ELSE IF TooLong(loop_length) THEN "too_long"
        ELSE IF ~(ValidColumn(chroma, loop_end) /\ ValidColumn(chroma, loop_start))
             THEN "chroma_index_panic"
        ELSE IF ~HasTolerance(i) THEN "tolerance_panic"
        ELSE IF ~ChromaOk(NoteDistance(loop_end, loop_start), i) THEN "chroma_reject"
        ELSE IF ~(ValidColumn(power_db, loop_end) /\ ValidColumn(power_db, loop_start))
             THEN "power_index_panic"
        ELSE IF ~LoudnessOk(LoudnessDifference(loop_end, loop_start)) THEN "loudness_reject"
        ELSE "emit"

Pair(i, s) ==
    <<beats[s], beats[i], NoteDistance(beats[i], beats[s]),
      LoudnessDifference(beats[i], beats[s])>>

PanicKinds == {"overflow_panic", "chroma_index_panic", "tolerance_panic", "power_index_panic"}
SkipKinds == {"too_long", "chroma_reject", "loudness_reject"}

\* Control: where the nested loops go after the body.
AfterContinue(i, s) == IF s < Len(beats) THEN <<i, s + 1>> ELSE <<i + 1, 1>>
\* Mutant: break written as continue.
AfterBreak_Continue(i, s) == AfterContinue(i, s)
\* Mutant: break leaves both loops.
AfterBreak_ExitsOuter(i, s) == <<Len(beats) + 1, 1>>
AfterBreak(i, s) == <<i + 1, 1>>

\* Mutant: new entries are put in front.
Push_Front(v, e) == <<e>> \o v
\* candidate_pairs.push
Push(v, e) == Append(v, e)

\* ------------------------------------------------------------- inputs
ChromaColumn(c) == <<c % 2, 0>>
PowerColumn(c) == <<-1, (c \div 2) % 2>>
ChromaMatrix(ncols) == [c \in 1 .. ncols |-> ChromaColumn(c - 1)]
PowerMatrix(ncols) == [c \in 1 .. ncols |-> PowerColumn(c - 1)]

SeqsUpTo(S, n) == UNION {[1 .. k -> S] : k \in 0 .. n}
Frames == 0 .. MaxFrame
Durations == {d \in Word : d <= 2 \/ d >= MaxWord - 1}
ColumnCounts == {<<MaxFrame + 1, MaxFrame + 1>>, <<MaxFrame, MaxFrame + 1>>,
                 <<MaxFrame + 1, MaxFrame>>, <<0, MaxFrame + 1>>, <<MaxFrame + 1, 0>>}
Tolerances == {0, 1}
ToleranceLists(b) == UNION {[1 .. k -> Tolerances] : k \in {b} \cup (IF b > 0 THEN {b - 1} ELSE {})}

B == Len(beats)

InitInputs ==
    /\ beats \in SeqsUpTo(Frames, MaxBeats)
    /\ \E cc \in ColumnCounts :
          /\ chroma = ChromaMatrix(cc[1])
          /\ power_db = PowerMatrix(cc[2])
    /\ acceptable_chroma_deviation \in ToleranceLists(Len(beats))
    /\ min_loop_duration \in Durations
    /\ max_loop_duration \in Durations
    /\ acceptable_loudness_difference \in Tolerances
    /\ overflow_checks \in BOOLEAN

InitSeq ==
    /\ idx = 1
    /\ j = 1
    /\ candidate_pairs = <<>>
    /\ pc = "loop"
    /\ ret = <<>>
    /\ emittedPos = <<>>
    /\ evaluated = {}
    /\ lastEvent = [kind |-> "none", idx |-> 0, j |-> 0]

InitPar ==
    /\ wj = [w \in 1 .. Len(beats) |-> 1]
    /\ wlist = [w \in 1 .. Len(beats) |-> <<>>]
    /\ wstate = [w \in 1 .. Len(beats) |-> "scan"]
    /\ merged = <<>>
    /\ mstatus = "pending"

Init == InitInputs /\ InitSeq /\ InitPar

\* ------------------------------------------------- sequential actions
InBody == pc = "loop" /\ idx <= B /\ j <= B

Record(kind) ==
    /\ evaluated' = evaluated \cup {<<idx, j>>}
    /\ lastEvent' = [kind |-> kind, idx |-> idx, j |-> j]

Goto(target) == idx' = target[1] /\ j' = target[2]

\* Mutant: a failed index is ignored and the scan goes on.
Panic_Ignored ==
    /\ InBody
    /\ Classify(idx, j) \in PanicKinds
    /\ Record(Classify(idx, j))
    /\ Goto(AfterContinue(idx, j))
    /\ UNCHANGED <<candidate_pairs, pc, ret, emittedPos, inputs, parvars>>

Panic ==
    /\ InBody
    /\ Classify(idx, j) \in PanicKinds
    /\ Record(Classify(idx, j))
    /\ pc' = "panicked"
    /\ UNCHANGED <<idx, j, candidate_pairs, ret, emittedPos, inputs, parvars>>

Break ==
    /\ InBody
    /\ Classify(idx, j) = "too_short"
    /\ Record("too_short")
    /\ Goto(AfterBreak(idx, j))
    /\ UNCHANGED <<candidate_pairs, pc, ret, emittedPos, inputs, parvars>>

Continue ==
    /\ InBody
    /\ Classify(idx, j) \in SkipKinds
    /\ Record(Classify(idx, j))
    /\ Goto(AfterContinue(idx, j))
    /\ UNCHANGED <<candidate_pairs, pc, ret, emittedPos, inputs, parvars>>

Emit ==
    /\ InBody
    /\ Classify(idx, j) = "emit"
    /\ Record("emit")
    /\ candidate_pairs' = Push(candidate_pairs, Pair(idx, j))
    /\ emittedPos' = Append(emittedPos, <<idx, j>>)
    /\ Goto(AfterContinue(idx, j))
    /\ UNCHANGED <<pc, ret, inputs, parvars>>

Return ==
    /\ pc = "loop"
    /\ idx > B
    /\ ret' = candidate_pairs
    /\ pc' = "done"
    /\ UNCHANGED <<idx, j, candidate_pairs, emittedPos, evaluated, lastEvent, inputs, parvars>>

Next == Panic \/ Break \/ Continue \/ Emit \/ Return

Spec == Init /\ [][Next]_vars

\* ---------------------------------------------- one worker per end position
\* The parallel arrangement the design allows: worker w runs the inner loop
\* for end position w into its own list; the lists are concatenated in
\* ascending end position.  A panic in any worker aborts the whole call.
\* The workers are started once the sequential call has ended, so that both
\* results exist side by side for the same inputs.
Scanning(w) == pc # "loop" /\ mstatus = "pending" /\ wstate[w] = "scan" /\ wj[w] <= B

WorkerAdvance(w) ==
    IF wj[w] < B
    THEN wj' = [wj EXCEPT ![w] = wj[w] + 1] /\ UNCHANGED wstate
    ELSE wstate' = [wstate EXCEPT ![w] = "finished"] /\ UNCHANGED wj

WorkerPanic(w) ==
    /\ Scanning(w)
    /\ Classify(w, wj[w]) \in PanicKinds
    /\ wstate' = [wstate EXCEPT ![w] = "panicked"]
    /\ UNCHANGED <<wj, wlist, merged, mstatus, inputs, seqvars>>

WorkerBreak(w) ==
    /\ Scanning(w)
    /\ Classify(w, wj[w]) = "too_short"
    /\ wstate' = [wstate EXCEPT ![w] = "finished"]
    /\ UNCHANGED <<wj, wlist, merged, mstatus, inputs, seqvars>>

WorkerContinue(w) ==
    /\ Scanning(w)
    /\ Classify(w, wj[w]) \in SkipKinds
    /\ WorkerAdvance(w)
    /\ UNCHANGED <<wlist, merged, mstatus, inputs, seqvars>>

WorkerEmit(w) ==
    /\ Scanning(w)
    /\ Classify(w, wj[w]) = "emit"
    /\ wlist' = [wlist EXCEPT ![w] = Append(wlist[w], Pair(w, wj[w]))]
    /\ WorkerAdvance(w)
    /\ UNCHANGED <<merged, mstatus, inputs, seqvars>>

RECURSIVE Concat(_, _)
Concat(lists, n) == IF n = 0 THEN <<>> ELSE Concat(lists, n - 1) \o lists[n]

Merge ==
    /\ pc # "loop"
    /\ mstatus = "pending"
    /\ \A w \in 1 .. B : wstate[w] # "scan"
    /\ IF \E w \in 1 .. B : wstate[w] = "panicked"
       THEN mstatus' = "panicked" /\ UNCHANGED merged
       ELSE mstatus' = "done" /\ merged' = Concat(wlist, B)
    /\ UNCHANGED <<wj, wlist, wstate, inputs, seqvars>>

ParColumnCounts == {<<MaxFrame + 1, MaxFrame + 1>>, <<MaxFrame, MaxFrame + 1>>}
ParMinDurations == {d \in Word : d <= 1 \/ d = MaxWord}
ParMaxDurations == {d \in Word : d = 1 \/ d = MaxWord}

InitParInputs ==
    /\ beats \in SeqsUpTo(Frames, MaxBeats)
    /\ \E cc \in ParColumnCounts :
          /\ chroma = ChromaMatrix(cc[1])
          /\ power_db = PowerMatrix(cc[2])
    /\ acceptable_chroma_deviation \in ToleranceLists(Len(beats))
    /\ min_loop_duration \in ParMinDurations
    /\ max_loop_duration \in ParMaxDurations
    /\ acceptable_loudness_difference \in Tolerances
    /\ overflow_checks \in BOOLEAN

InitParallel == InitParInputs /\ InitSeq /\ InitPar

NextPar ==
    \/ Next
    \/ \E w \in 1 .. B : WorkerPanic(w)
    \/ \E w \in 1 .. B : WorkerBreak(w)
    \/ \E w \in 1 .. B : WorkerContinue(w)
    \/ \E w \in 1 .. B : WorkerEmit(w)
    \/ Merge

SpecPar == InitParallel /\ [][NextPar]_vars

\* ==================================================================
\* Properties
\* ==================================================================
Ascending == \A a, b \in 1 .. B : a <= b => beats[a] <= beats[b]

EndOf(t) == t[2]
StartOf(t) == t[1]

\* The loop length of positions (i, s) as the machine computes it.
MachineLength(i, s) == (beats[i] - beats[s]) % Pow2(WordBits)

\* Some later position of the same end was never entered: the scan was cut.
ScanCut == \E e \in 1 .. B, s \in 1 .. B - 1 : <<e, s>> \in evaluated /\ <<e, s + 1>> \notin evaluated

\* C1: every emitted tuple has loopStart <= loopEnd, a true (non-wrapping)
\* length within [min_loop_duration, max_loop_duration], a chroma distance
\* within the tolerance of its end position and a loudness difference within
\* acceptable_loudness_difference.
C1_Soundness ==
    \A k \in 1 .. Len(candidate_pairs) :
        LET t == candidate_pairs[k]
            e == emittedPos[k][1]
        IN  /\ StartOf(t) <= EndOf(t)
            /\ min_loop_duration <= EndOf(t) - StartOf(t)
            /\ EndOf(t) - StartOf(t) <= max_loop_duration
            /\ t[3] <= acceptable_chroma_deviation[e]
            /\ t[4] <= acceptable_loudness_difference

\* A pair of positions that passes the three filters, stated on the inputs.
PassesAllFilters(e, s) ==
    /\ beats[s] <= beats[e]
    /\ min_loop_duration <= beats[e] - beats[s]
    /\ beats[e] - beats[s] <= max_loop_duration
    /\ beats[e] < Len(chroma) /\ beats[s] < Len(chroma)
    /\ beats[e] < Len(power_db) /\ beats[s] < Len(power_db)
    /\ e <= Len(acceptable_chroma_deviation)
    /\ NoteDistance(beats[e], beats[s]) <= acceptable_chroma_deviation[e]
    /\ LoudnessDifference(beats[e], beats[s]) <= acceptable_loudness_difference

LexBefore(a, b) == a[1] < b[1] \/ (a[1] = b[1] /\ a[2] < b[2])

C3_Ordered ==
    /\ Len(emittedPos) = Len(candidate_pairs)
    /\ \A k \in 1 .. Len(candidate_pairs) : candidate_pairs[k] = Pair(emittedPos[k][1], emittedPos[k][2])
    /\ \A p, q \in 1 .. Len(candidate_pairs) : p < q => LexBefore(emittedPos[p], emittedPos[q])
    /\ pc = "done" => ret = candidate_pairs

C3_AppendOnly ==
    \/ candidate_pairs' = candidate_pairs
    \/ /\ Len(candidate_pairs') = Len(candidate_pairs) + 1
       /\ SubSeq(candidate_pairs', 1, Len(candidate_pairs)) = candidate_pairs

\* C3: the output is the emitted pairs in nested scan order (ascending end
\* position, then ascending start position), entries are only ever appended,
\* and the returned vector is the accumulator as built.
C3_ScanOrder == [](C3_Ordered) /\ [][C3_AppendOnly]_vars

C3_Witness ==
    /\ pc = "done" /\ Len(ret) >= 2
    /\ emittedPos[1][1] = emittedPos[2][1]

\* Some input breaks the precondition of the call.
PreconditionViolated ==
    \/ \E i \in 1 .. B : beats[i] >= Len(chroma) \/ beats[i] >= Len(power_db)
    \/ Len(acceptable_chroma_deviation) < B

InWindow(i, s) ==
    /\ ~(overflow_checks /\ beats[s] > beats[i])
    /\ min_loop_duration <= MachineLength(i, s)
    /\ MachineLength(i, s) <= max_loop_duration

\* The body for (i, s) gets to an index that does not exist.
BadAccess(i, s) ==
    /\ InWindow(i, s)
    /\ \/ beats[i] >= Len(chroma) \/ beats[s] >= Len(chroma)
       \/ i > Len(acceptable_chroma_deviation)
       \/ /\ NoteDistance(beats[i], beats[s]) <= acceptable_chroma_deviation[i]
          /\ (beats[i] >= Len(power_db) \/ beats[s] >= Len(power_db))

ZeroColumns == Len(chroma) = 0 \/ Len(power_db) = 0

\* C5 as claimed: with empty beats, or a chroma or power matrix of zero
\* columns (any beats), the call completes normally and returns the empty
\* sequence.
C5_DegenerateNeverFails ==
    (B = 0 \/ ZeroColumns) => (pc # "panicked" /\ (pc = "done" => ret = <<>>))

\* C5 (amended): with empty beats the call completes normally with the
\* empty sequence, whatever the matrices.  With a matrix of zero columns and
\* beats not empty nothing is ever emitted, and the call returns (the empty
\* sequence) only if no pair gets to a column of that matrix: the first pair
\* inside the duration window (chroma), or past the chroma filter (power_db),
\* aborts the call.
C5_DegenerateInputs ==
    /\ B = 0 => (pc # "panicked" /\ candidate_pairs = <<>> /\ evaluated = {})
    /\ ZeroColumns => (candidate_pairs = <<>> /\ ret = <<>>)
    /\ Len(chroma) = 0 =>
          \A p \in evaluated : InWindow(p[1], p[2]) =>
              (pc = "panicked" /\ lastEvent.kind = "chroma_index_panic")
    /\ (Len(power_db) = 0 /\ Len(chroma) > 0) =>
          \A p \in evaluated :
              ( /\ InWindow(p[1], p[2])
                /\ beats[p[1]] < Len(chroma) /\ beats[p[2]] < Len(chroma)
                /\ p[1] <= Len(acceptable_chroma_deviation)
                /\ NoteDistance(beats[p[1]], beats[p[2]]) <= acceptable_chroma_deviation[p[1]] ) =>
                  (pc = "panicked" /\ lastEvent.kind = "power_index_panic")

C5_Witness ==
    /\ Len(chroma) = 0 /\ B >= 1
    /\ pc = "panicked" /\ lastEvent.kind = "chroma_index_panic"

C7_ReversedSkippedAsTooLong ==
    (lastEvent.kind # "none" /\ beats[lastEvent.j] > beats[lastEvent.idx]) =>
        lastEvent.kind = "too_long"

NoBreakBefore(e, s) == \A s2 \in 1 .. s - 1 : ~(MachineLength(e, s2) < min_loop_duration)

\* C8: for every end position, no pair is emitted whose start position is
\* at or after the first position that is too short; a start that is too
\* long does not stop the scan: in a call that returns, a position is
\* evaluated exactly when no earlier position of that end was too short.
C8_BreakSemantics ==
    /\ \A k \in 1 .. Len(emittedPos) : NoBreakBefore(emittedPos[k][1], emittedPos[k][2] + 1)
    /\ \A p \in evaluated : NoBreakBefore(p[1], p[2])
    /\ pc = "done" =>
          \A e \in 1 .. B, s \in 1 .. B : <<e, s>> \in evaluated <=> NoBreakBefore(e, s)

\* A later start that would pass every filter, cut off by the break.
C8_Witness ==
    /\ pc = "done"
    /\ \E e \in 1 .. B, s \in 1 .. B, s2 \in 1 .. B :
          /\ s < s2
          /\ <<e, s>> \in evaluated
          /\ MachineLength(e, s) < min_loop_duration
          /\ PassesAllFilters(e, s2)
          /\ \A k \in 1 .. Len(ret) : emittedPos[k] # <<e, s2>>

\* C9: the concatenation, in ascending end position, of the lists built by
\* one worker per end position is the sequence the sequential call returns,
\* and the parallel call aborts exactly when the sequential one does.
C9_ParallelEqualsSequential ==
    mstatus # "pending" =>
        /\ (mstatus = "done") <=> (pc = "done")
        /\ pc = "done" => merged = ret

C9_Witness ==
    /\ mstatus = "done" /\ B >= 2 /\ Len(merged) >= 1
    /\ ScanCut

\* C10: on ascending beats with min_loop_duration >= 1 the inner scan of an
\* end position only evaluates positions up to that end position, so the
\* subtraction never runs with loop_start > loop_end: no wrap, no overflow
\* panic.
C10_NoUnderflow ==
    (Ascending /\ min_loop_duration >= 1) =>
        /\ \A p \in evaluated : p[2] <= p[1] /\ beats[p[2]] <= beats[p[1]]
        /\ lastEvent.kind # "overflow_panic"

C10_Witness ==
    /\ Ascending /\ min_loop_duration >= 1 /\ B >= 2
    /\ pc = "done"
    /\ <<B, B>> \in evaluated
    /\ beats[1] < beats[B]

====
